---------------------------- MODULE Spec2Model ----------------------------
(* A model of wire/msgack.go: the MsgAck message, its binary codec          *)
(* (MsgEncode / MsgDecode), the signable prefix (GetBinaryForSignature,     *)
(* Sign), Clone, Equals, IsEomAck and MaxPayloadLength.                      *)
(*                                                                          *)
(* Bytes are the integers 0..255 and a byte slice is a sequence of bytes.   *)
(* TLC's integers are 32 bits wide and signed, so a uint32 is held as two   *)
(* 16-bit limbs <<hi, lo>> and a uint64 as four, most significant first;    *)
(* binary.BigEndian splits each limb into its two bytes.                    *)
EXTENDS Integers, Sequences, FiniteSets, TLC

VARIABLES
    msg,      \* the sender's MsgAck
    ack,      \* a second MsgAck: the receiver of MsgDecode, the result of Clone, the argument of Equals
    wire,     \* the bytes MsgEncode wrote to its io.Writer
    rd,       \* the io.Reader handed to the last MsgDecode: [arr, len, ok]
    signed,   \* the bytes handed to priv.Sign by the last Sign
    pc,       \* where the message is in its life: start, built, encoded, done
    op,       \* the last operation that ran
    err,      \* what it returned: "nil", "error", or "panic" for a run-time panic
    ret       \* the boolean returned by the last Equals or IsEomAck

vars == <<msg, ack, wire, rd, signed, pc, op, err, ret>>

-----------------------------------------------------------------------------
(* Bounds of the model *)

\* short strings of every length 0..MaxShortLen are drawn for SourceNodeID and SourceAddr
MaxShortLen == 1
\* strings of 256 .. 255 + MaxOverLen bytes are drawn too (longer than a length byte can say)
MaxOverLen == 1
\* protocol versions 0..MaxPver are passed as pver
MaxPver == 1

-----------------------------------------------------------------------------
(* Ack Type constants (iota) *)

AckFactoidTx == 0
EndMinute1 == 1
EndMinute2 == 2
EndMinute3 == 3
EndMinute4 == 4
EndMinute5 == 5
EndMinute6 == 6
EndMinute7 == 7
EndMinute8 == 8
EndMinute9 == 9
EndMinute10 == 10
AckRevealEntry == 11
AckCommitChain == 12
AckRevealChain == 13
AckCommitEntry == 14
EndMinute == 15
NonEndMinute == 16
Unknown == 17

-----------------------------------------------------------------------------
(* Bytes, integers and hashes *)

Byte == 0..255

\* n bytes, by position, starting from a seed
Pattern(seed, n) == [i \in 1..n |-> (seed + 7 * i) % 256]

Zeros(n) == [i \in 1..n |-> 0]

\* byte(len(s)): a Go conversion of an int to a byte keeps the low 8 bits
ByteOfLen(s) == Len(s) % 256

\* binary.Write(&buf, binary.BigEndian, v) for a uint32 v
PutUint32(v) == << v[1] \div 256, v[1] % 256, v[2] \div 256, v[2] % 256 >>

\* binary.Write(&buf, binary.BigEndian, v) for a uint64 v
PutUint64(v) == << v[1] \div 256, v[1] % 256, v[2] \div 256, v[2] % 256,
                   v[3] \div 256, v[3] % 256, v[4] \div 256, v[4] % 256 >>

\* binary.BigEndian.Uint32(b)
Uint32(b) == << b[1] * 256 + b[2], b[3] * 256 + b[4] >>

\* binary.BigEndian.Uint64(b)
Uint64(b) == << b[1] * 256 + b[2], b[3] * 256 + b[4],
                b[5] * 256 + b[6], b[7] * 256 + b[8] >>

\* a nil *common.Hash or *ShaHash; a present one is its 32 bytes
Nil == << >>

HashLen == 32
SigLen == 64

\* common.NewHash() and new(ShaHash): the all-zero hash
NewHash == Zeros(HashLen)

\* (*common.Hash).Bytes, (*common.Hash).MarshalBinary and (*ShaHash).Bytes:
\* the 32 bytes of the hash, in order
HashBytes(h) == [i \in 1..HashLen |-> h[i]]

\* NewShaHash(b) and the copy of (*common.Hash).UnmarshalBinaryData: a hash
\* holding the first 32 bytes of b
HashFromBytes(b) == [i \in 1..HashLen |-> b[i]]

\* (*ShaHash).IsEqual and (*common.Hash).IsSameAs: equality of the bytes
HashIsEqual(a, b) == a # Nil /\ b # Nil /\ \A i \in 1..HashLen : a[i] = b[i]

\* priv.Sign(data).Sig: 64 bytes that depend on the key and on the data
PrivSign(priv, data) ==
    [i \in 1..SigLen |-> (priv + Len(data) + data[((i - 1) % Len(data)) + 1]) % 256]

-----------------------------------------------------------------------------
(* MsgAck *)

\* the zero value of the struct, &MsgAck{}
ZeroMsgAck ==
    [ Height            |-> <<0, 0>>,
      ChainID           |-> Nil,
      Index             |-> <<0, 0>>,
      Type              |-> 0,
      DBlockTimestamp   |-> <<0, 0>>,
      CoinbaseTimestamp |-> <<0, 0, 0, 0>>,
      Affirmation       |-> Nil,
      SerialHash        |-> Zeros(HashLen),
      Signature         |-> Zeros(SigLen),
      SourceNodeID      |-> << >>,
      SourceAddr        |-> << >> ]

NewMsgAck(height, index, affirm, ackType, timestamp, coinbaseTS, sid, addr) ==
    [ ZeroMsgAck EXCEPT
        !.Height            = height,
        !.ChainID           = NewHash,
        !.Index             = index,
        !.DBlockTimestamp   = timestamp,
        !.CoinbaseTimestamp = coinbaseTS,
        !.Affirmation       = IF affirm = Nil THEN NewHash ELSE affirm,
        !.Type              = ackType,
        !.SourceNodeID      = sid,
        !.SourceAddr        = addr ]

\* the value a panicking or failing call leaves behind
NoBytes == << >>

\* MsgEncode writing the signable prefix first and the signature after the strings
MsgEncodeSigLast(m, pver) ==
    IF m.ChainID = Nil \/ m.Affirmation = Nil
    THEN [err |-> "panic", out |-> NoBytes]
    ELSE [err |-> "nil",
          out |-> PutUint32(m.Height)
                  \o HashBytes(m.ChainID)
                  \o PutUint32(m.Index)
                  \o << m.Type >>
                  \o PutUint32(m.DBlockTimestamp)
                  \o PutUint64(m.CoinbaseTimestamp)
                  \o HashBytes(m.Affirmation)
                  \o m.SerialHash
                  \o << ByteOfLen(m.SourceNodeID) >>
                  \o m.SourceNodeID
                  \o << ByteOfLen(m.SourceAddr) >>
                  \o m.SourceAddr
                  \o m.Signature]

\* MsgEncode: [err, out], out being the bytes written to w
MsgEncode(m, pver) ==
    IF m.ChainID = Nil \/ m.Affirmation = Nil
    THEN [err |-> "panic", out |-> NoBytes]
    ELSE [err |-> "nil",
          out |-> PutUint32(m.Height)
                  \o HashBytes(m.ChainID)
                  \o PutUint32(m.Index)
                  \o << m.Type >>
                  \o PutUint32(m.DBlockTimestamp)
                  \o PutUint64(m.CoinbaseTimestamp)
                  \o HashBytes(m.Affirmation)
                  \o m.SerialHash
                  \o m.Signature
                  \o << ByteOfLen(m.SourceNodeID) >>
                  \o m.SourceNodeID
                  \o << ByteOfLen(m.SourceAddr) >>
                  \o m.SourceAddr]


\* GetBinaryForSignature writing the Signature too, as MsgEncode does
GetBinaryForSignatureWithSig(m) ==
    IF m.Affirmation = Nil
    THEN [err |-> "panic", data |-> NoBytes]
    ELSE [err  |-> "nil",
          data |-> PutUint32(m.Height)
                   \o (IF m.ChainID # Nil THEN HashBytes(m.ChainID) ELSE << >>)
                   \o PutUint32(m.Index)
                   \o << m.Type >>
                   \o PutUint32(m.DBlockTimestamp)
                   \o PutUint64(m.CoinbaseTimestamp)
                   \o HashBytes(m.Affirmation)
                   \o m.SerialHash
                   \o m.Signature
                   \o << ByteOfLen(m.SourceNodeID) >>
                   \o m.SourceNodeID
                   \o << ByteOfLen(m.SourceAddr) >>
                   \o m.SourceAddr]

\* GetBinaryForSignature: [err, data]
GetBinaryForSignature(m) ==
    IF m.Affirmation = Nil
    THEN [err |-> "panic", data |-> NoBytes]
    ELSE [err  |-> "nil",
          data |-> PutUint32(m.Height)
                   \o (IF m.ChainID # Nil THEN HashBytes(m.ChainID) ELSE << >>)
                   \o PutUint32(m.Index)
                   \o << m.Type >>
                   \o PutUint32(m.DBlockTimestamp)
                   \o PutUint64(m.CoinbaseTimestamp)
                   \o HashBytes(m.Affirmation)
                   \o m.SerialHash
                   \o << ByteOfLen(m.SourceNodeID) >>
                   \o m.SourceNodeID
                   \o << ByteOfLen(m.SourceAddr) >>
                   \o m.SourceAddr]

\* Sign: [err, msg, data], data being the bytes handed to priv.Sign
Sign(m, priv) ==
    LET b == GetBinaryForSignature(m)
    IN  IF b.err # "nil"
        THEN [err |-> b.err, msg |-> m, data |-> NoBytes]
        ELSE [err  |-> "nil",
              msg  |-> [m EXCEPT !.Signature = PrivSign(priv, b.data)],
              data |-> b.data]

MaxPayloadLength(pver) == 300

Clone(m) ==
    [ ZeroMsgAck EXCEPT
        !.Height            = m.Height,
        !.ChainID           = m.ChainID,
        !.Index             = m.Index,
        !.DBlockTimestamp   = m.DBlockTimestamp,
        !.CoinbaseTimestamp = m.CoinbaseTimestamp,
        !.Affirmation       = m.Affirmation,
        !.Type              = m.Type,
        !.SourceNodeID      = m.SourceNodeID,
        !.SourceAddr        = m.SourceAddr ]

\* IsEomAck with the upper end of the range left out
IsEomAckBelow10(m) ==
    IF EndMinute1 <= m.Type /\ m.Type < EndMinute10 THEN TRUE ELSE FALSE

IsEomAck(m) ==
    IF EndMinute1 <= m.Type /\ m.Type <= EndMinute10 THEN TRUE ELSE FALSE

\* Equals without the comparison of SourceAddr
EqualsNoSourceAddr(m, a) ==
    IF m.Affirmation = Nil
    THEN [err |-> "panic", eq |-> FALSE]
    ELSE [err |-> "nil",
          eq  |-> /\ m.Height = a.Height
                  /\ m.Index = a.Index
                  /\ m.Type = a.Type
                  /\ m.DBlockTimestamp = a.DBlockTimestamp
                  /\ m.CoinbaseTimestamp = a.CoinbaseTimestamp
                  /\ HashIsEqual(m.Affirmation, a.Affirmation)
                  /\ HashIsEqual(m.ChainID, a.ChainID)
                  /\ m.SerialHash = a.SerialHash
                  /\ m.Signature = a.Signature
                  /\ m.SourceNodeID = a.SourceNodeID]

\* Equals: [err, eq]; IsEqual and IsSameAs are called on msg's pointers, and
\* && stops at the first false comparison
Equals(m, a) ==
    IF m.Height # a.Height \/ m.Index # a.Index \/ m.Type # a.Type
       \/ m.DBlockTimestamp # a.DBlockTimestamp
       \/ m.CoinbaseTimestamp # a.CoinbaseTimestamp
    THEN [err |-> "nil", eq |-> FALSE]
    ELSE IF m.Affirmation = Nil
    THEN [err |-> "panic", eq |-> FALSE]
    ELSE IF ~HashIsEqual(m.Affirmation, a.Affirmation)
    THEN [err |-> "nil", eq |-> FALSE]
    ELSE [err |-> "nil",
          eq  |-> /\ HashIsEqual(m.ChainID, a.ChainID)
                  /\ m.SerialHash = a.SerialHash
                  /\ m.Signature = a.Signature
                  /\ m.SourceNodeID = a.SourceNodeID
                  /\ m.SourceAddr = a.SourceAddr]

-----------------------------------------------------------------------------
(* Go slices: arr is the backing array from the slice's start to its        *)
(* capacity, len the slice's length. s[:hi] is legal up to the capacity,    *)
(* s[lo:] and s[i] up to the length; anything else panics.                  *)

CanTo(s, hi) == hi <= Len(s.arr)
CanFrom(s, lo) == lo <= s.len
CanIndex(s, i) == i < s.len
To(s, hi) == SubSeq(s.arr, 1, hi)
From(s, lo) == [arr |-> SubSeq(s.arr, lo + 1, Len(s.arr)), len |-> s.len - lo]
Index(s, i) == s.arr[i + 1]

\* (*common.Hash).UnmarshalBinaryData(p): copies p into the hash and returns
\* p[32:]; it fails when p is shorter than a hash
UnmarshalBinaryData(p) ==
    [ ok   |-> CanFrom(p, HashLen),
      hash |-> [i \in 1..HashLen |-> IF i <= p.len THEN p.arr[i] ELSE 0],
      rest |-> IF CanFrom(p, HashLen) THEN From(p, HashLen) ELSE [arr |-> << >>, len |-> 0] ]

Panic(m) == [err |-> "panic", msg |-> m]

\* DecodeStrings taking SourceAddr from the slice that still starts with its length byte
DecodeStringsNoSkip(m, d) ==
    IF ~(CanIndex(d, 64) /\ CanFrom(d, 65)) THEN Panic(m) ELSE
    LET slen == Index(d, 64)
        d1   == From(d, 65)
    IN  IF ~(CanTo(d1, slen) /\ CanFrom(d1, slen)) THEN Panic(m) ELSE
    LET m1 == [m EXCEPT !.SourceNodeID = To(d1, slen)]
        d2 == From(d1, slen)
    IN  IF ~CanIndex(d2, 0) THEN Panic(m1) ELSE
    LET slen2 == Index(d2, 0)
    IN  IF ~CanTo(d2, slen2) THEN Panic(m1) ELSE
        [err |-> "nil", msg |-> [m1 EXCEPT !.SourceAddr = To(d2, slen2)]]

\* MsgDecode, lines 115-123: the two strings
DecodeStrings(m, d) ==
    IF ~(CanIndex(d, 64) /\ CanFrom(d, 65)) THEN Panic(m) ELSE
    LET slen == Index(d, 64)
        d1   == From(d, 65)
    IN  IF ~(CanTo(d1, slen) /\ CanFrom(d1, slen)) THEN Panic(m) ELSE
    LET m1 == [m EXCEPT !.SourceNodeID = To(d1, slen)]
        d2 == From(d1, slen)
    IN  IF ~(CanIndex(d2, 0) /\ CanFrom(d2, 1)) THEN Panic(m1) ELSE
    LET slen2 == Index(d2, 0)
        d3    == From(d2, 1)
    IN  IF ~CanTo(d3, slen2) THEN Panic(m1) ELSE
        [err |-> "nil", msg |-> [m1 EXCEPT !.SourceAddr = To(d3, slen2)]]

\* MsgDecode, lines 104-113: Index to Signature
DecodeFixed(m, d) ==
    IF ~(CanTo(d, 4) /\ CanFrom(d, 4)) THEN Panic(m) ELSE
    LET m1 == [m EXCEPT !.Index = Uint32(To(d, 4))]
        d1 == From(d, 4)
    IN  IF ~(CanIndex(d1, 0) /\ CanFrom(d1, 1)) THEN Panic(m1) ELSE
    LET m2 == [m1 EXCEPT !.Type = Index(d1, 0)]
        d2 == From(d1, 1)
    IN  IF ~(CanTo(d2, 4) /\ CanFrom(d2, 4)) THEN Panic(m2) ELSE
    LET m3 == [m2 EXCEPT !.DBlockTimestamp = Uint32(To(d2, 4))]
        d3 == From(d2, 4)
    IN  IF ~(CanTo(d3, 8) /\ CanFrom(d3, 8)) THEN Panic(m3) ELSE
    LET m4 == [m3 EXCEPT !.CoinbaseTimestamp = Uint64(To(d3, 8))]
        d4 == From(d3, 8)
    IN  IF ~CanTo(d4, 32) THEN Panic(m4) ELSE
    LET m5 == [m4 EXCEPT !.Affirmation = HashFromBytes(To(d4, 32))]
    IN  IF ~CanFrom(d4, 32) THEN Panic(m5) ELSE
    LET d5 == From(d4, 32)
    IN  IF ~CanTo(d5, 32) THEN Panic(m5) ELSE
    LET m6 == [m5 EXCEPT !.SerialHash = To(d5, 32)]
    IN  IF ~CanFrom(d5, 32) THEN Panic(m6) ELSE
    LET d6 == From(d5, 32)
    IN  IF ~CanTo(d6, 64) THEN Panic(m6) ELSE
        DecodeStrings([m6 EXCEPT !.Signature = To(d6, 64)], d6)

\* MsgDecode: [err, msg]; r is the reader: ioutil.ReadAll returns the slice
\* [arr, len] when r.ok and an error otherwise
MsgDecode(m, r, pver) ==
    IF ~r.ok THEN [err |-> "error", msg |-> m] ELSE
    LET d == [arr |-> r.arr, len |-> r.len]
    IN  IF ~(CanTo(d, 4) /\ CanFrom(d, 4)) THEN Panic(m) ELSE
    LET m1 == [m EXCEPT !.Height = Uint32(To(d, 4))]
        u  == UnmarshalBinaryData(From(d, 4))
        m2 == [m1 EXCEPT !.ChainID = u.hash]
    IN  IF ~u.ok THEN Panic(m2) ELSE DecodeFixed(m2, u.rest)

-----------------------------------------------------------------------------
(* The inputs the operations are run on *)

\* height, index, DBlock timestamp and coinbase timestamp of a call of NewMsgAck;
\* the first is the example of the specification (100, 3, 1000, 5000)
Scalars ==
    { << <<0, 100>>,         <<0, 3>>,         <<0, 1000>>,      <<0, 0, 0, 5000>> >>,
      << <<65535, 65535>>,   <<65535, 65535>>, <<65535, 65535>>, <<65535, 65535, 65535, 65535>> >>,
      << <<258, 772>>,       <<1286, 1800>>,   <<2314, 2828>>,   <<3342, 3856, 4370, 4884>> >> }

Types == {AckFactoidTx, EndMinute10, Unknown}

Affirms == {Nil, Pattern(1, HashLen)}

ChainIDs == {Nil, Pattern(2, HashLen)}

SerialHashes == {Zeros(HashLen), Pattern(3, HashLen)}

PrivateKeys == {1}

PVers == 0..MaxPver

\* lengths of SourceNodeID and SourceAddr: short, the longest a length byte can
\* say, and longer
MaxByte == 255
StrLens == (0..MaxShortLen) \cup {MaxByte} \cup ((MaxByte + 1)..(MaxByte + MaxOverLen))

NodeIDs == {Pattern(4, n) : n \in StrLens}
Addrs == {Pattern(5, n) : n \in StrLens}

\* free capacity behind the bytes ioutil.ReadAll returns (bytes.MinRead is 512),
\* and what that memory holds
Slacks == {0, 512}
Fills == {0, 170}

\* the bytes ioutil.ReadAll returns from reader r: the first r.len bytes that
\* were written, in an array with r.slack more bytes of capacity
ReadAll(w, r) ==
    [ arr |-> SubSeq(w, 1, r.len) \o [i \in 1..r.slack |-> r.fill],
      len |-> r.len,
      ok  |-> r.ok ]

\* where a transport may cut the bytes of a message short
Cuts(w) == {0, 36, 180, 181, 182, Len(w) - 1, Len(w)} \cap (0..Len(w))

NoReader == [len |-> 0, slack |-> 0, fill |-> 0, ok |-> TRUE]

-----------------------------------------------------------------------------
(* The operations. A message is built, has its fields assigned, is signed    *)
(* (or not), and is then encoded and decoded, or cloned.                     *)

Init ==
    /\ msg = ZeroMsgAck
    /\ ack = ZeroMsgAck
    /\ wire = NoBytes
    /\ rd = NoReader
    /\ signed = NoBytes
    /\ pc = "start"
    /\ op = "none"
    /\ err = "nil"
    /\ ret = FALSE

NewMsgAckOp ==
    /\ pc = "start"
    /\ \E s \in Scalars, a \in Affirms, t \in Types, sid \in NodeIDs, addr \in Addrs :
         msg' = NewMsgAck(s[1], s[2], a, t, s[3], s[4], sid, addr)
    /\ pc' = "built"
    /\ op' = "NewMsgAck"
    /\ err' = "nil"
    /\ UNCHANGED <<ack, wire, rd, signed, ret>>

\* the caller fills in the exported fields NewMsgAck leaves open
AssignOp ==
    /\ pc = "built"
    /\ \E c \in ChainIDs \cup {msg.ChainID}, sh \in SerialHashes :
         msg' = [msg EXCEPT !.ChainID = c, !.SerialHash = sh]
    /\ pc' = "filled"
    /\ op' = "Assign"
    /\ err' = "nil"
    /\ UNCHANGED <<ack, wire, rd, signed, ret>>

SignOp ==
    /\ pc = "filled"
    /\ \E priv \in PrivateKeys :
         LET r == Sign(msg, priv)
         IN  /\ msg' = r.msg
             /\ signed' = r.data
             /\ err' = r.err
    /\ pc' = "signed"
    /\ op' = "Sign"
    /\ UNCHANGED <<ack, wire, rd, ret>>

MsgEncodeOp ==
    /\ pc \in {"filled", "signed"}
    /\ \E pver \in PVers :
         LET r == MsgEncode(msg, pver)
         IN  /\ wire' = r.out
             /\ err' = r.err
             /\ pc' = IF r.err = "nil" THEN "encoded" ELSE "done"
    /\ op' = "MsgEncode"
    /\ UNCHANGED <<msg, ack, rd, signed, ret>>

MsgDecodeOp ==
    /\ pc = "encoded"
    /\ \E pver \in PVers, n \in Cuts(wire), sl \in Slacks, ok \in BOOLEAN :
       \E f \in (IF sl = 0 THEN {0} ELSE Fills) :
         LET r == [len |-> n, slack |-> sl, fill |-> f, ok |-> ok]
             d == MsgDecode(ack, ReadAll(wire, r), pver)
         IN  /\ rd' = r
             /\ ack' = d.msg
             /\ err' = d.err
    /\ pc' = "done"
    /\ op' = "MsgDecode"
    /\ UNCHANGED <<msg, wire, signed, ret>>

CloneOp ==
    /\ pc \in {"filled", "signed"}
    /\ ack' = Clone(msg)
    /\ pc' = "done"
    /\ op' = "Clone"
    /\ err' = "nil"
    /\ UNCHANGED <<msg, wire, rd, signed, ret>>

Next ==
    \/ NewMsgAckOp
    \/ AssignOp
    \/ SignOp
    \/ MsgEncodeOp
    \/ MsgDecodeOp
    \/ CloneOp

Spec == Init /\ [][Next]_vars

-----------------------------------------------------------------------------
(* Equals, run on pairs of messages                                          *)

FieldNames == DOMAIN ZeroMsgAck

\* another value of the same type: a byte string with its last byte changed
\* (or one byte where there was none), a scalar with its lowest limb changed
OtherBytes(b) ==
    IF Len(b) = 0 THEN << 1 >> ELSE [b EXCEPT ![Len(b)] = (b[Len(b)] + 1) % 256]

OtherLimbs(v) == [v EXCEPT ![Len(v)] = (v[Len(v)] + 1) % 65536]

OtherValue(f, v) ==
    CASE f \in {"Height", "Index", "DBlockTimestamp", "CoinbaseTimestamp"} -> OtherLimbs(v)
      [] f = "Type" -> (v + 1) % 256
      [] OTHER -> OtherBytes(v)

\* m with the fields named in S changed
Vary(m, S) == [f \in FieldNames |-> IF f \in S THEN OtherValue(f, m[f]) ELSE m[f]]

\* a message as it is sent: built, its ChainID assigned, signed
SentMsgs ==
    { Sign([NewMsgAck(s[1], s[2], Pattern(1, HashLen), t, s[3], s[4], Pattern(4, n), Pattern(5, 0))
              EXCEPT !.ChainID = Pattern(2, HashLen), !.SerialHash = Pattern(3, HashLen)], 1).msg :
        s \in Scalars, t \in {EndMinute1}, n \in {0, MaxShortLen} }

InitEquals ==
    /\ msg \in SentMsgs
    /\ ack \in {Vary(msg, S) : S \in SUBSET FieldNames}
    /\ wire = NoBytes
    /\ rd = NoReader
    /\ signed = NoBytes
    /\ pc = "pair"
    /\ op = "none"
    /\ err = "nil"
    /\ ret = FALSE

EqualsOp ==
    /\ pc = "pair"
    /\ LET r == Equals(msg, ack)
       IN  /\ ret' = r.eq
           /\ err' = r.err
    /\ pc' = "done"
    /\ op' = "Equals"
    /\ UNCHANGED <<msg, ack, wire, rd, signed>>

SpecEquals == InitEquals /\ [][EqualsOp]_vars

-----------------------------------------------------------------------------
(* IsEomAck, run on every value of Type                                      *)

InitEom ==
    /\ \E s \in Scalars, t \in Byte, n \in 0..MaxShortLen :
         msg = NewMsgAck(s[1], s[2], Nil, t, s[3], s[4], Pattern(4, n), Pattern(5, n))
    /\ ack = ZeroMsgAck
    /\ wire = NoBytes
    /\ rd = NoReader
    /\ signed = NoBytes
    /\ pc = "classify"
    /\ op = "none"
    /\ err = "nil"
    /\ ret = FALSE

IsEomAckOp ==
    /\ pc = "classify"
    /\ ret' = IsEomAck(msg)
    /\ pc' = "done"
    /\ op' = "IsEomAck"
    /\ err' = "nil"
    /\ UNCHANGED <<msg, ack, wire, rd, signed>>

SpecEom == InitEom /\ [][IsEomAckOp]_vars

-----------------------------------------------------------------------------
(* The claims *)

\* the fixed-size portion of the encoding: 181 bytes
FixedLen == 4 + HashLen + 4 + 1 + 4 + 8 + HashLen + HashLen + SigLen

\* a valid message: ChainID and Affirmation present, both strings at most 255 bytes
Valid(m) ==
    /\ m.ChainID # Nil
    /\ m.Affirmation # Nil
    /\ Len(m.SourceNodeID) <= MaxByte
    /\ Len(m.SourceAddr) <= MaxByte

\* the last MsgDecode read all the bytes MsgEncode wrote for msg
DecodedWhole == op = "MsgDecode" /\ rd.ok /\ rd.len = Len(wire)

\* C1 (round trip): when MsgDecode reads all the bytes MsgEncode wrote for a
\* valid message, with any protocol version on either side, it returns nil
\* and the decoded message Equals the encoded one.
C1_RoundTrip ==
    (DecodedWhole /\ Valid(msg)) =>
        /\ err = "nil"
        /\ Equals(msg, ack).eq
        /\ Equals(ack, msg).eq

\* a signed message with a 255-byte SourceNodeID and a SourceAddr was encoded and decoded
C1_Witness ==
    /\ DecodedWhole
    /\ Valid(msg)
    /\ err = "nil"
    /\ msg.Signature # Zeros(SigLen)
    /\ Len(msg.SourceNodeID) = MaxByte
    /\ Len(msg.SourceAddr) = 1
    /\ msg.Type = Unknown

\* the bytes handed to the last MsgDecode stop short: before the end of the
\* fixed portion, or before the end of a string whose length byte was read
Truncated ==
    \/ rd.len < FixedLen
    \/ /\ rd.len >= FixedLen + 1
       /\ LET n1 == wire[FixedLen + 1]
          IN  \/ FixedLen + 1 + n1 > rd.len
              \/ /\ FixedLen + 2 + n1 <= rd.len
                 /\ FixedLen + 2 + n1 + wire[FixedLen + 2 + n1] > rd.len

\* C2 (truncated-buffer safety): MsgDecode of bytes that stop short returns
\* an error.
C2_TruncatedReturnsError ==
    (op = "MsgDecode" /\ rd.ok /\ Truncated) => err = "error"

\* the bytes parse as a fixed portion and two strings, each as long as its length byte says
WellFormed(w) ==
    /\ Len(w) >= FixedLen + 2
    /\ FixedLen + 2 + w[FixedLen + 1] <= Len(w)
    /\ Len(w) = FixedLen + 2 + w[FixedLen + 1] + w[FixedLen + 2 + w[FixedLen + 1]]

\* C3 (length-prefix bound): MsgEncode returns an error, or every length byte
\* it wrote is the number of string bytes that follow it.
C3_LengthByteMatches ==
    (op = "MsgEncode" /\ msg.ChainID # Nil /\ msg.Affirmation # Nil) =>
        (err = "error" \/ WellFormed(wire))

\* C4 (wire layout): for a valid message MsgEncode writes Height, ChainID,
\* Index, Type, DBlockTimestamp, CoinbaseTimestamp, Affirmation, SerialHash,
\* Signature, then a length byte and SourceNodeID, a length byte and
\* SourceAddr: 181 + 2 + len(SourceNodeID) + len(SourceAddr) bytes, integers
\* big-endian.
C4_WireLayout ==
    (op = "MsgEncode" /\ Valid(msg)) =>
        LET n1 == Len(msg.SourceNodeID)
            n2 == Len(msg.SourceAddr)
        IN  /\ err = "nil"
            /\ Len(wire) = 181 + 2 + n1 + n2
            /\ wire[1] * 256 + wire[2] = msg.Height[1]
            /\ wire[3] * 256 + wire[4] = msg.Height[2]
            /\ SubSeq(wire, 5, 36) = msg.ChainID
            /\ Uint32(SubSeq(wire, 37, 40)) = msg.Index
            /\ wire[41] = msg.Type
            /\ Uint32(SubSeq(wire, 42, 45)) = msg.DBlockTimestamp
            /\ Uint64(SubSeq(wire, 46, 53)) = msg.CoinbaseTimestamp
            /\ SubSeq(wire, 54, 85) = msg.Affirmation
            /\ SubSeq(wire, 86, 117) = msg.SerialHash
            /\ SubSeq(wire, 118, 181) = msg.Signature
            /\ wire[182] = n1
            /\ SubSeq(wire, 183, 182 + n1) = msg.SourceNodeID
            /\ wire[183 + n1] = n2
            /\ SubSeq(wire, 184 + n1, 183 + n1 + n2) = msg.SourceAddr

\* a signed valid message with both strings non-empty was encoded
C4_Witness ==
    /\ op = "MsgEncode"
    /\ Valid(msg)
    /\ err = "nil"
    /\ msg.Signature # Zeros(SigLen)
    /\ msg.SerialHash # Zeros(HashLen)
    /\ Len(msg.SourceNodeID) = MaxByte
    /\ Len(msg.SourceAddr) = 1
    /\ msg.Height = <<258, 772>>

\* signatures a message may carry
Signatures == {Zeros(SigLen), Pattern(6, SigLen), PrivSign(1, Pattern(7, FixedLen))}

\* C5 (signable-prefix exclusion): messages that differ only in Signature
\* have the same signable prefix, and the prefix of a message after Sign
\* stored the signature is the one that was signed.
C5_PrefixExcludesSignature ==
    /\ \A sig \in Signatures :
         GetBinaryForSignature([msg EXCEPT !.Signature = sig]) = GetBinaryForSignature(msg)
    /\ (op = "Sign" /\ err = "nil") => GetBinaryForSignature(msg).data = signed

\* Sign stored a signature in a message with a ChainID
C5_Witness ==
    /\ op = "Sign"
    /\ err = "nil"
    /\ msg.ChainID = Pattern(2, HashLen)
    /\ msg.Signature # Zeros(SigLen)
    /\ Len(msg.SourceAddr) = MaxByte

\* C6 (Equals): for two messages with ChainID and Affirmation present, Equals
\* returns true exactly when all eleven fields are equal by value.
C6_EqualsIffAllFields ==
    (op = "Equals" /\ Valid(msg) /\ ack.ChainID # Nil /\ ack.Affirmation # Nil) =>
        /\ err = "nil"
        /\ ret <=> (\A f \in FieldNames : msg[f] = ack[f])

\* Equals returned false for two messages whose only difference is the last byte of SourceAddr
C6_Witness ==
    /\ op = "Equals"
    /\ ret = FALSE
    /\ {f \in FieldNames : msg[f] # ack[f]} = {"SourceAddr"}

\* C7 (Clone): the clone of a message Equals it, SerialHash and Signature included.
C7_CloneEquals ==
    (op = "Clone" /\ Valid(msg)) =>
        /\ Equals(msg, ack).eq
        /\ ack.SerialHash = msg.SerialHash
        /\ ack.Signature = msg.Signature

\* C8 (Sign without ChainID): Sign on a message whose ChainID is absent
\* returns an error and stores no signature.
C8_SignFailsWithoutChainID ==
    (op = "Sign" /\ msg.ChainID = Nil) =>
        /\ err = "error"
        /\ msg.Signature = Zeros(SigLen)

\* C9 (MaxPayloadLength): the encoding of a valid message is no longer than
\* MaxPayloadLength(pver), for every pver.
C9_MaxPayloadBoundsEncoding ==
    (op = "MsgEncode" /\ Valid(msg) /\ err = "nil") =>
        \A pver \in PVers : Len(wire) <= MaxPayloadLength(pver)

\* C10 (end-of-minute classification): IsEomAck returns true exactly when
\* Type is one of EndMinute1 .. EndMinute10, whatever the other fields hold.
C10_IsEomAckRange ==
    (op = "IsEomAck") =>
        /\ err = "nil"
        /\ ret <=> (msg.Type \in {EndMinute1, EndMinute2, EndMinute3, EndMinute4, EndMinute5,
                                  EndMinute6, EndMinute7, EndMinute8, EndMinute9, EndMinute10})

\* IsEomAck returned true for EndMinute10, the upper end of the range
C10_Witness ==
    /\ op = "IsEomAck"
    /\ msg.Type = EndMinute10
    /\ ret = TRUE

=============================================================================
